---- MODULE Spec2Model ----
(***************************************************************************)
(* Metadata resolution of nwb_conversion_tools: the chainable spec objects *)
(* (spec/base_spec.py, spec/path.py, spec/external_file.py), the dict      *)
(* deduplication helpers of utils.py and the deep merge they rest on.      *)
(*                                                                         *)
(* Python values are tagged records [t |-> type, v |-> payload]; a dict is *)
(* a function from key strings to tagged values.  An operation's outcome   *)
(* is a record whose field `raised` names the exception that left it, or   *)
(* "none".                                                                 *)
(***************************************************************************)
EXTENDS Integers, Sequences, FiniteSets, TLC

VARIABLES
    child,      \* BaseSpec._child of every spec object: <<>> (None) or <<object>>
    parent,     \* BaseSpec._parent of every spec object: <<>> (None) or <<object>>
    loaded_files, \* BaseExternalFileSpec.loaded_files, the cache all instances share
    last,       \* the last call made on a spec object and how it ended
    mbase,      \* first argument of the dict_deep_update call under way
    moverlay,   \* second argument of that call
    mout,       \* its return value, once it returned
    a_list,     \* the list of per-path dicts handed to the deduplication
    strict,     \* its raise_on_dupes argument
    hashOrd,    \* the iteration order of Python sets in this process
    dres,       \* the outcome of the deduplication, once it ended
    tree,       \* the files under the base directory a path template is matched in
    tres,       \* the last call made with a path template and how it ended
    disk,       \* what opening and loading each sidecar file gives
    loads,      \* how often objects that cache loaded each file, and failed to
    sres,       \* the last _parse of an external-file object and how it ended
    data_interface_classes, \* NWBConverter.data_interface_classes
    interface_specs,        \* NWBConverter._spec
    data_interface_objects, \* NWBConverter.data_interface_objects
    constructed,            \* the constructor calls run_conversion made, in order
    metadata_spec,          \* NWBConverter._metadata_spec
    static_metadata,        \* NWBConverter._static_metadata
    self_metadata,          \* NWBConverter._metadata, None until the property is read
    cres        \* the last call made on the converter and how it ended

vars == <<child, parent, loaded_files, last, mbase, moverlay, mout, a_list, strict, hashOrd,
          dres, tree, tres, disk, loads, sres, data_interface_classes, interface_specs,
          data_interface_objects, constructed, metadata_spec, static_metadata,
          self_metadata, cres>>
chainVars == <<child, parent, loaded_files, last>>
mergeVars == <<mbase, moverlay, mout>>
dedupeVars == <<a_list, strict, hashOrd, dres>>
templateVars == <<tree, tres>>
sidecarVars == <<disk, loads, sres>>
converterVars == <<data_interface_classes, interface_specs, data_interface_objects,
                   constructed, metadata_spec, static_metadata, self_metadata, cres>>

(***************************************************************************)
(* Bounds                                                                  *)
(***************************************************************************)
NumSpecs == 3       \* spec objects constructed
NumBases == 2       \* base directories a chain is parsed against
NumVals == 2        \* distinct scalar values in the dicts that are merged
MaxFrags == 2       \* per-path dicts in the list that is deduplicated

(***************************************************************************)
(* Python values                                                           *)
(***************************************************************************)
PyStr(s) == [t |-> "str", v |-> s]
PyInt(n) == [t |-> "int", v |-> n]
PyDict(f) == [t |-> "dict", v |-> f]
PyList(q) == [t |-> "list", v |-> q]
PyTuple(q) == [t |-> "tuple", v |-> q]

EmptyDict == [k \in {} |-> PyInt(0)]
Range(q) == {q[i] : i \in DOMAIN q}
IsHashable(x) == x.t \in {"str", "int"}

\* The dicts over the keys K whose values are taken from V: every key absent or present.
DictsOver(K, V) == UNION {[S -> V] : S \in SUBSET K}

(***************************************************************************)
(* DictMerger: json_schema_utils.dict_deep_update(d, u).  The module is    *)
(* imported by spec/base_spec.py and nwbconverter.py; its text is not part *)
(* of the sources at hand, so the merge follows the written contract: for  *)
(* each key of u, add it when d lacks it, recurse when both values are     *)
(* dicts, and let u's value replace d's otherwise.  An argument that is no *)
(* dict (None) cannot be iterated.                                         *)
(***************************************************************************)
NoDict == PyStr("None")
IsDict(f) == f # NoDict

\* dict.update: the overlay's value replaces the base's at the top level only.
dict_update_shallow(d, u) ==
    [k \in DOMAIN d \cup DOMAIN u |-> IF k \in DOMAIN u THEN u[k] ELSE d[k]]

RECURSIVE dict_deep_update(_, _)
dict_deep_update(d, u) ==
    [k \in DOMAIN d \cup DOMAIN u |->
        IF k \notin DOMAIN u THEN d[k]
        ELSE IF k \in DOMAIN d /\ d[k].t = "dict" /\ u[k].t = "dict"
             THEN PyDict(dict_deep_update(d[k].v, u[k].v))
             ELSE u[k]]

\* The dicts that are merged: two top-level keys, each absent, a scalar, a list or a
\* dict of scalars over two nested keys.
MergeScalars == {PyInt(n) : n \in 1..NumVals}
MergeKeys == {"a", "b"}
NestedKeys == {"x", "y"}
MergeValues ==
    MergeScalars \cup {PyList(<<PyInt(1), PyInt(2)>>)}
        \cup {PyDict(f) : f \in DictsOver(NestedKeys, MergeScalars)}
MergeDicts == DictsOver(MergeKeys, MergeValues)

(***************************************************************************)
(* Deduplicator: utils._gather_list_of_dicts and                           *)
(* utils._recursive_dedupe_dicts.                                          *)
(***************************************************************************)
Raised(kind, dupes) == [raised |-> kind, value |-> EmptyDict, dupes |-> dupes]
Returned(value) == [raised |-> "none", value |-> value, dupes |-> EmptyDict]

\* The order in which a dict's items are visited, where it decides which of two
\* failing keys raises first.
DictOrder == <<"subject", "session", "x">>
PosIn(q, x) == CHOOSE i \in DOMAIN q : q[i] = x
FirstKey(S) == CHOOSE k \in S : \A j \in S : PosIn(DictOrder, k) <= PosIn(DictOrder, j)

\* The values of key k in the dicts of a_list that carry it, in list order.
ValuesOf(l, k) ==
    LET idx == SelectSeq([i \in 1..Len(l) |-> i], LAMBDA i : k \in DOMAIN l[i])
    IN  [j \in 1..Len(idx) |-> l[idx[j]][k]]

\* A gathering that keeps only the keys every dict carries.
gather_common_keys(l) ==
    IF Len(l) = 1 THEN l[1]
    ELSE [k \in {k \in UNION {DOMAIN l[i] : i \in DOMAIN l} :
                    \A i \in DOMAIN l : k \in DOMAIN l[i]} |-> PyList(ValuesOf(l, k))]

gather_list_of_dicts(l) ==
    IF Len(l) = 1
    THEN l[1]
    ELSE [k \in UNION {DOMAIN l[i] : i \in DOMAIN l} |-> PyList(ValuesOf(l, k))]

\* tuple(set(v)): the distinct members of v, once each, in the set's iteration order.
TupleOfSet(S, ord) == SelectSeq(ord, LAMBDA x : x \in S)

\* set(v) of line 298: an int cannot be iterated, a dict or list member cannot be hashed.
SetRaises(v) ==
    CASE v.t = "int" -> TRUE
      [] v.t \in {"list", "tuple"} -> \E i \in DOMAIN v.v : ~IsHashable(v.v[i])
      [] OTHER -> FALSE

RECURSIVE recursive_dedupe_dicts(_, _, _)
recursive_dedupe_dicts(a_dict, raise_on_dupes, ord) ==
    LET Entry(k) ==
            LET v == a_dict[k]
            IN  CASE v.t = "dict" ->
                        \* the recursive call leaves raise_on_dupes at its default, True
                        LET r == recursive_dedupe_dicts(v.v, TRUE, ord)
                        IN  [raised |-> r.raised, value |-> PyDict(r.value),
                             dupe |-> FALSE, dupes |-> r.dupes]
                  [] v.t \in {"list", "tuple"} ->
                        LET tup == TupleOfSet(Range(v.v), ord)
                        IN  IF Len(tup) > 1
                            THEN [raised |-> "none", value |-> PyTuple(tup),
                                  dupe |-> TRUE, dupes |-> EmptyDict]
                            ELSE IF Len(tup) = 1
                            THEN [raised |-> "none", value |-> tup[1],
                                  dupe |-> FALSE, dupes |-> EmptyDict]
                            ELSE [raised |-> "IndexError", value |-> v,
                                  dupe |-> FALSE, dupes |-> EmptyDict]
                  [] OTHER -> [raised |-> "none", value |-> v,
                               dupe |-> FALSE, dupes |-> EmptyDict]
        keys == DOMAIN a_dict
        failing == {k \in keys : Entry(k).raised # "none"}
        dupes == [k \in {k \in keys : Entry(k).dupe} |-> Entry(k).value]
    IN  IF \E k \in keys : SetRaises(a_dict[k])
        THEN Raised("TypeError", EmptyDict)
        ELSE IF failing # {}
        THEN Raised(Entry(FirstKey(failing)).raised, Entry(FirstKey(failing)).dupes)
        ELSE IF raise_on_dupes /\ DOMAIN dupes # {}
        THEN Raised("Exception", dupes)
        ELSE Returned([k \in keys |-> Entry(k).value])

\* utils._dedupe_list_of_dicts, as spec/path.py imports and calls it: utils.py
\* defines no function of that name, only the two halves above, which it chains.
dedupe_list_of_dicts(l, raise_on_dupes, ord) ==
    recursive_dedupe_dicts(gather_list_of_dicts(l), raise_on_dupes, ord)

\* Path.parse and Paths.parse after _parse_dir returned `results`.
Path_parse_results(results, ord) ==
    LET r == dedupe_list_of_dicts(results, TRUE, ord)
    IN  IF r.raised = "AmbiguityError"
        THEN [r EXCEPT !.raised = "AmbiguityError"]   \* re-raised, a hint appended
        ELSE r

Paths_parse_results(results, ord) == dedupe_list_of_dicts(results, FALSE, ord)

\* The per-path dicts: two placeholders, each absent or holding a string, an int or a
\* nested dict.
S1 == PyStr("s1")
S2 == PyStr("s2")
I7 == PyInt(7)
DedupeScalars == {S1, S2, I7}
DedupeKeys == {"subject", "session"}
DedupeValues ==
    DedupeScalars
        \cup {PyDict("x" :> S1), PyDict("x" :> S2), PyDict("x" :> PyList(<<S1, S2>>))}
DedupeDicts == DictsOver(DedupeKeys, DedupeValues)
DedupeLists == UNION {[1..n -> DedupeDicts] : n \in 1..MaxFrags}
HashOrders == {q \in [1..Cardinality(DedupeScalars) -> DedupeScalars] :
                  Range(q) = DedupeScalars}

SameKeySets(l) == \A i, j \in DOMAIN l : DOMAIN l[i] = DOMAIN l[j]

\* What _parse_dir can return: at least one dict (it raises on none), each holding the
\* named fields of the one parser (at least one, or __init__ raised), a field being a
\* captured string or int, or the dict of an indexed field such as {subject[x]}.
IsCaptured(x) == x.t \in {"str", "int"}
ParserResults(l) ==
    /\ Len(l) >= 1
    /\ DOMAIN l[1] # {}
    /\ SameKeySets(l)
    /\ \A i \in DOMAIN l : \A k \in DOMAIN l[i] :
          /\ l[i][k].t = l[1][k].t
          /\ \/ IsCaptured(l[i][k])
             \/ /\ l[i][k].t = "dict"
                /\ DOMAIN l[i][k].v = DOMAIN l[1][k].v
                /\ \A j \in DOMAIN l[i][k].v :
                      IsCaptured(l[i][k].v[j]) /\ l[i][k].v[j].t = l[1][k].v[j].t

DedupePending == [op |-> "none", raised |-> "pending", value |-> EmptyDict,
                  dupes |-> EmptyDict]
Outcome(op, r) == [op |-> op, raised |-> r.raised, value |-> r.value, dupes |-> r.dupes]

(***************************************************************************)
(* The spec objects.  NumSpecs objects exist, constructed and not yet      *)
(* chained; the class and the constructor arguments of each are fixed.     *)
(* A Path or Paths object runs the methods its class defines and, for the  *)
(* rest (_parse, _specifies), the bodies BaseSpec gives them, which hold a *)
(* docstring only and return None.  BaseSpec declares both abstract and    *)
(* neither Path nor Paths overrides them, so abc refuses to construct a    *)
(* Path as the classes stand; the objects here are what any concrete       *)
(* subclass is for the methods Path defines (specifies, parse, _parse_dir),*)
(* and the properties stated of a Path rest on those methods alone.        *)
(***************************************************************************)
Specs == 1..NumSpecs
NotASpec == NumSpecs + 1          \* an operand that is no BaseSpec
Bases == 1..NumBases
None == <<>>

Cls(i) == CASE i = 2 -> "Path" [] i = 4 -> "Paths" [] OTHER -> "JSON"
IsBaseSpec(o) == o \in Specs

\* Path(format): the named fields of parse.Parser(format).
NamedFields(i) == IF Cls(i) = "Path" THEN <<"subject", "session">> ELSE <<"subject">>

\* JSON(path, key, field, cache): the objects that are chained are built with
\* cache=False, so resolving them leaves the shared cache alone.
JsonPath(i) == "meta.json"
JsonKey(i) == IF i <= 3 THEN "id" ELSE "a"
JsonField(i) == IF i = 1 THEN <<"session", "id">> ELSE <<"subject">>
JsonCache(i) == FALSE

\* tuple(s) of a str: its characters.
Chars(k) ==
    CASE k = "id" -> <<"i", "d">>
      [] k = "file_path" -> <<"f", "i", "l", "e", "_", "p", "a", "t", "h">>
      [] OTHER -> <<k>>

\* The files under each base directory: the sidecar every JSON object names, and
\* the data files a path template matches (one under base 1, two under the others).
SidecarAt(L) ==
    ("session" :> PyDict("id" :> PyInt(L))) @@ ("subject" :> PyStr("m1"))
Captured(i, s) ==
    [k \in Range(NamedFields(i)) |-> IF k = "session" THEN s ELSE PyStr("m1")]
parse_dir(i, L) ==
    IF L = 1 THEN <<Captured(i, S1)>> ELSE <<Captured(i, S1), Captured(i, S2)>>
ProcessHashOrd == <<S1, S2, I7>>

\* A selection that hands back what it was given, descending nowhere.
sub_select_nowhere(loaded, field) == [raised |-> "none", value |-> loaded, args |-> <<>>]

\* BaseExternalFileSpec._sub_select with a non-empty tuple field (a str field is the
\* tuple of that one item): [raised, value, args], args being the arguments of the
\* exception, the item looked up for a KeyError.
RECURSIVE sub_select(_, _)
sub_select(loaded, field) ==
    IF field = <<>> THEN [raised |-> "none", value |-> loaded, args |-> <<>>]
    ELSE IF loaded.t # "dict"
    THEN [raised |-> "TypeError", value |-> loaded, args |-> <<>>]
    ELSE IF Head(field) \notin DOMAIN loaded.v
    THEN [raised |-> "KeyError", value |-> loaded, args |-> <<PyStr(Head(field))>>]
    ELSE sub_select(loaded.v[Head(field)], Tail(field))

\* BaseExternalFileSpec._parse(base_path) against the cache `files`:
\* [raised, value, files] with the cache as the call leaves it.
ExternalFile_parse(i, L, files) ==
    LET file_path == <<L, JsonPath(i)>>
        hit == JsonCache(i) /\ file_path \in DOMAIN files
        loaded_file == IF hit THEN files[file_path] ELSE SidecarAt(L)
        stored == IF ~hit /\ JsonCache(i)
                  THEN [p \in DOMAIN files \cup {file_path} |->
                            IF p = file_path THEN loaded_file ELSE files[p]]
                  ELSE files
        sel == sub_select(PyDict(loaded_file), JsonField(i))
    IN  [raised |-> sel.raised,
         value |-> IF sel.raised = "none" THEN (JsonKey(i) :> sel.value) ELSE EmptyDict,
         files |-> stored]

\* child._parse(), as BaseSpec.parse calls it on a child: without the base path.
\* BaseExternalFileSpec._parse requires base_path; BaseSpec._parse returns None.
Child_parse(c) ==
    IF Cls(c) = "JSON"
    THEN [raised |-> "TypeError", value |-> NoDict]
    ELSE [raised |-> "none", value |-> NoDict]

\* BaseSpec.children(): the objects reached over _child links, and whether the
\* generator ever ends (it does not once a link leads back into the chain).
RECURSIVE ChildrenFrom(_, _, _)
ChildrenFrom(ch, c, seen) ==
    IF c = None THEN [seq |-> <<>>, ends |-> TRUE]
    ELSE IF c[1] \in seen THEN [seq |-> <<>>, ends |-> FALSE]
    ELSE LET r == ChildrenFrom(ch, ch[c[1]], seen \cup {c[1]})
         IN  [seq |-> <<c[1]>> \o r.seq, ends |-> r.ends]
children(ch, a) == ChildrenFrom(ch, ch[a], {})
Members(ch, a) == <<a>> \o children(ch, a).seq

\* BaseSpec._specifies of each class
own_specifies(i) == IF Cls(i) = "JSON" THEN Chars(JsonKey(i)) ELSE None
HasOwnSpecifies(i) == Cls(i) = "JSON"

\* The loop of BaseSpec.specifies over the children in `rest`.
RECURSIVE ExtendSpecified(_, _)
ExtendSpecified(specified, rest) ==
    IF rest = <<>> THEN [raised |-> "none", keys |-> specified]
    ELSE IF ~HasOwnSpecifies(Head(rest)) THEN [raised |-> "TypeError", keys |-> <<>>]
    ELSE ExtendSpecified(specified \o own_specifies(Head(rest)), Tail(rest))

\* spec.specifies: Path.specifies for a Path or Paths, BaseSpec.specifies otherwise.
specifies(ch, a) ==
    IF Cls(a) \in {"Path", "Paths"}
    THEN [raised |-> "none", keys |-> NamedFields(a)]
    ELSE LET kids == children(ch, a)
             r == ExtendSpecified(own_specifies(a), kids.seq)
         IN  IF r.raised # "none" THEN r
             ELSE IF ~kids.ends THEN [raised |-> "NeverReturns", keys |-> <<>>]
             ELSE r

\* The loop of BaseSpec.parse over the children from c on.
RECURSIVE ParseChildren(_, _, _, _, _)
ParseChildren(ch, out, c, calls, seen) ==
    IF c = None THEN [raised |-> "none", value |-> out, calls |-> calls]
    ELSE IF c[1] \in seen THEN [raised |-> "NeverReturns", value |-> EmptyDict, calls |-> calls]
    ELSE LET r == Child_parse(c[1])
             made == Append(calls, [spec |-> c[1], base |-> None])
         IN  IF r.raised # "none"
             THEN [raised |-> r.raised, value |-> EmptyDict, calls |-> made]
             ELSE IF ~IsDict(r.value)
             THEN [raised |-> "AttributeError", value |-> EmptyDict, calls |-> made]
             ELSE ParseChildren(ch, dict_deep_update(out, r.value), ch[c[1]], made,
                                seen \cup {c[1]})

\* spec.parse(base_path): Path.parse, Paths.parse or BaseSpec.parse.
\* [raised, value, calls, files]: calls lists the resolve calls made on members, each
\* with the base path it was given (None when it was given none).
parse(ch, a, L, files) ==
    LET first == <<[spec |-> a, base |-> <<L>>]>>
    IN  CASE Cls(a) = "Path" ->
                LET r == Path_parse_results(parse_dir(a, L), ProcessHashOrd)
                IN  [raised |-> r.raised, value |-> r.value, calls |-> first,
                     files |-> files]
          [] Cls(a) = "Paths" ->
                LET r == Paths_parse_results(parse_dir(a, L), ProcessHashOrd)
                IN  [raised |-> r.raised, value |-> r.value, calls |-> first,
                     files |-> files]
          [] OTHER ->
                LET own == ExternalFile_parse(a, L, files)
                    r == ParseChildren(ch, own.value, ch[a], first, {})
                IN  IF own.raised # "none"
                    THEN [raised |-> own.raised, value |-> EmptyDict, calls |-> first,
                          files |-> own.files]
                    ELSE [raised |-> r.raised, value |-> r.value, calls |-> r.calls,
                          files |-> own.files]

\* An __add__ that links whatever it is given, without the isinstance test.
add_without_type_check(ch, pa, a, o, depth) ==
    [raised |-> "none", child |-> [ch EXCEPT ![a] = <<o>>], parent |-> pa]

\* An __add__ that overwrites the head's child rather than appending to the tail.
add_replacing_child(ch, pa, a, o, depth) ==
    IF ~IsBaseSpec(o) THEN [raised |-> "TypeError", child |-> ch, parent |-> pa]
    ELSE [raised |-> "none", child |-> [ch EXCEPT ![a] = <<o>>],
          parent |-> [pa EXCEPT ![o] = <<a>>]]

\* self + other: [raised, child, parent] with the links as the call leaves them.
\* A chain that leads back into itself is descended until the interpreter's
\* recursion limit; no link is assigned before the innermost call returns.
RECURSIVE add(_, _, _, _, _)
add(ch, pa, a, o, depth) ==
    IF ~IsBaseSpec(o) THEN [raised |-> "TypeError", child |-> ch, parent |-> pa]
    ELSE IF ch[a] = None
    THEN [raised |-> "none", child |-> [ch EXCEPT ![a] = <<o>>],
          parent |-> [pa EXCEPT ![o] = <<a>>]]
    ELSE IF depth > NumSpecs
    THEN [raised |-> "RecursionError", child |-> ch, parent |-> pa]
    ELSE LET r == add(ch, pa, ch[a][1], o, depth + 1)
         IN  IF r.raised # "none" THEN [r EXCEPT !.child = ch, !.parent = pa]
             ELSE [r EXCEPT !.child = [r.child EXCEPT ![a] = ch[a]]]

MergePending == [done |-> FALSE, value |-> EmptyDict]

MergeIdle == mbase = EmptyDict /\ moverlay = EmptyDict /\ mout = MergePending
DedupeIdle == a_list = <<>> /\ strict = FALSE /\ hashOrd = <<>> /\ dres = DedupePending
NoCall == [op |-> "none", self |-> 0, arg |-> 0, raised |-> "none",
           value |-> EmptyDict, keys |-> <<>>, calls |-> <<>>]
ChainIdle ==
    /\ child = <<>> /\ parent = <<>> /\ loaded_files = <<>> /\ last = NoCall
NoResult == [op |-> "none", raised |-> "none"]
TemplateIdle == tree = {} /\ tres = NoResult
SidecarIdle == disk = <<>> /\ loads = <<>> /\ sres = NoResult
ConverterIdle ==
    /\ data_interface_classes = <<>> /\ interface_specs = <<>>
    /\ data_interface_objects = <<>> /\ constructed = <<>> /\ cres = NoResult
    /\ metadata_spec = <<>> /\ static_metadata = EmptyDict /\ self_metadata = NoDict
LaterIdle == TemplateIdle /\ SidecarIdle /\ ConverterIdle

InitMerge ==
    /\ mbase \in MergeDicts
    /\ moverlay \in MergeDicts
    /\ mout = MergePending
    /\ DedupeIdle
    /\ ChainIdle
    /\ LaterIdle

\* One call metadata = dict_deep_update(metadata, fragment), as run_conversion makes it.
Merge ==
    /\ ~mout.done
    /\ mout' = [done |-> TRUE, value |-> dict_deep_update(mbase, moverlay)]
    /\ UNCHANGED <<mbase, moverlay, dedupeVars, chainVars, templateVars, sidecarVars, converterVars>>

NextMerge == Merge

SpecMerge == InitMerge /\ [][NextMerge]_vars

InitDedupe ==
    /\ a_list \in DedupeLists
    /\ hashOrd \in HashOrders
    /\ strict = FALSE
    /\ dres = DedupePending
    /\ MergeIdle
    /\ ChainIdle
    /\ LaterIdle

\* A direct call of the deduplication on any list of dicts.
Dedupe ==
    /\ dres.raised = "pending"
    /\ \E raise_on_dupes \in BOOLEAN :
          /\ strict' = raise_on_dupes
          /\ dres' = Outcome("dedupe",
                              dedupe_list_of_dicts(a_list, raise_on_dupes, hashOrd))
    /\ UNCHANGED <<a_list, hashOrd, mergeVars, chainVars, templateVars, sidecarVars, converterVars>>

\* Path.parse on a directory for which _parse_dir returned a_list.
PathParse ==
    /\ dres.raised = "pending"
    /\ ParserResults(a_list)
    /\ strict' = TRUE
    /\ dres' = Outcome("Path.parse", Path_parse_results(a_list, hashOrd))
    /\ UNCHANGED <<a_list, hashOrd, mergeVars, chainVars, templateVars, sidecarVars, converterVars>>

\* Paths.parse on a directory for which _parse_dir returned a_list.
PathsParse ==
    /\ dres.raised = "pending"
    /\ ParserResults(a_list)
    /\ strict' = FALSE
    /\ dres' = Outcome("Paths.parse", Paths_parse_results(a_list, hashOrd))
    /\ UNCHANGED <<a_list, hashOrd, mergeVars, chainVars, templateVars, sidecarVars, converterVars>>

NextDedupe == Dedupe \/ PathParse \/ PathsParse

SpecDedupe == InitDedupe /\ [][NextDedupe]_vars

(***************************************************************************)
(* Composition and resolution of spec objects                              *)
(***************************************************************************)
Init ==
    /\ child = [i \in Specs |-> None]
    /\ parent = [i \in Specs |-> None]
    /\ loaded_files = <<>>
    /\ last = NoCall
    /\ MergeIdle
    /\ DedupeIdle
    /\ LaterIdle

Called(op, a, arg, raised) ==
    [op |-> op, self |-> a, arg |-> arg, raised |-> raised,
     value |-> EmptyDict, keys |-> <<>>, calls |-> <<>>]

\* a + o
Add ==
    \E a \in Specs, o \in Specs \cup {NotASpec} :
        LET r == add(child, parent, a, o, 0)
        IN  /\ child' = r.child
            /\ parent' = r.parent
            /\ last' = Called("add", a, o, r.raised)
            /\ UNCHANGED <<loaded_files, mergeVars, dedupeVars, templateVars, sidecarVars, converterVars>>

\* a.specifies
Specifies ==
    \E a \in Specs :
        LET r == specifies(child, a)
        IN  /\ last' = [Called("specifies", a, 0, r.raised) EXCEPT !.keys = r.keys]
            /\ UNCHANGED <<child, parent, loaded_files, mergeVars, dedupeVars, templateVars, sidecarVars, converterVars>>

\* a.parse(base_dir), the call run_conversion makes on a metadata spec
Parse ==
    \E a \in Specs, L \in Bases :
        LET r == parse(child, a, L, loaded_files)
        IN  /\ loaded_files' = r.files
            /\ last' = [Called("parse", a, L, r.raised) EXCEPT
                            !.value = r.value, !.calls = r.calls]
            /\ UNCHANGED <<child, parent, mergeVars, dedupeVars, templateVars, sidecarVars, converterVars>>

\* a.parse(base_dir, metadata), the call run_conversion makes on a device's spec:
\* BaseSpec.parse and Path.parse take the base path and nothing else.
ParseWithMetadata ==
    \E a \in Specs, L \in Bases :
        /\ last' = Called("parse_with_metadata", a, L, "TypeError")
        /\ UNCHANGED <<child, parent, loaded_files, mergeVars, dedupeVars, templateVars, sidecarVars, converterVars>>

Next == Add \/ Specifies \/ Parse \/ ParseWithMetadata

Spec == Init /\ [][Next]_vars

(***************************************************************************)
(* Path templates: spec/path.py, Path.__init__ and Path._parse_dir.        *)
(* A str is the sequence of its characters.  A format string is a sequence *)
(* of literal characters and of fields: {name}, {name:d} and the anonymous *)
(* {}.  No format here puts two fields side by side, so its glob holds no  *)
(* "**".                                                                   *)
(***************************************************************************)
MaxFiles == 3       \* files under the base directory

Lit(c) == [f |-> "lit", c |-> c, name |-> "", type |-> ""]
Field(name, type) == [f |-> "field", c |-> "", name |-> name, type |-> type]
Lits(q) == [i \in DOMAIN q |-> Lit(q[i])]
DotDat == <<".", "d", "a", "t">>

\* "{subject}/{session}.dat", "{}/{}.dat", "{subject}/{}.dat", "m1/s1.dat",
\* "{subject}/s{session:d}.dat"
FormatSubjectSession ==
    <<Field("subject", ""), Lit("/"), Field("session", "")>> \o Lits(DotDat)
FormatAnonymous == <<Field("", ""), Lit("/"), Field("", "")>> \o Lits(DotDat)
FormatMixed == <<Field("subject", ""), Lit("/"), Field("", "")>> \o Lits(DotDat)
FormatLiteral == Lits(<<"m", "1", "/", "s", "1">> \o DotDat)
FormatTyped ==
    <<Field("subject", ""), Lit("/"), Lit("s"), Field("session", "d")>> \o Lits(DotDat)
Formats == {FormatSubjectSession, FormatAnonymous, FormatMixed, FormatLiteral, FormatTyped}

\* The files a base directory may hold, relative to it: m1/s1.dat, m1/s2.dat,
\* m2/s1.dat, m1/.dat, m1/sx.dat, m1/s1.txt.
FileOrder ==
    << <<"m", "1", "/", "s", "1">> \o DotDat,
       <<"m", "1", "/", "s", "2">> \o DotDat,
       <<"m", "2", "/", "s", "1">> \o DotDat,
       <<"m", "1", "/">> \o DotDat,
       <<"m", "1", "/", "s", "x">> \o DotDat,
       <<"m", "1", "/", "s", "1", ".", "t", "x", "t">> >>
Files == Range(FileOrder)
Trees == {t \in SUBSET Files : Cardinality(t) <= MaxFiles}

\* ''.join(q) and int(q)
RECURSIVE Join(_)
Join(q) == IF q = <<>> THEN "" ELSE Head(q) \o Join(Tail(q))
Digits == {"1", "2"}
DigitValue(c) == IF c = "1" THEN 1 ELSE 2
RECURSIVE IntOf(_, _)
IntOf(q, acc) == IF q = <<>> THEN acc ELSE IntOf(Tail(q), 10 * acc + DigitValue(Head(q)))

\* parse.Parser(format).named_fields
named_fields(format) ==
    LET fields == SelectSeq(format, LAMBDA tok : tok.f = "field" /\ tok.name # "")
    IN  [i \in DOMAIN fields |-> fields[i].name]
HasAnonymous(format) == \E i \in DOMAIN format : format[i].f = "field" /\ format[i].name = ""

\* Path.__init__(self, format), once an object is there to initialise
Path_init(format) ==
    IF Len(named_fields(format)) = 0 THEN "ValueError" ELSE "none"

\* cls(format): ABCMeta refuses a class that leaves an abstract method of BaseSpec
\* undefined, before __init__ runs.
BaseSpecAbstract == {"_parse", "_specifies"}
Defines(cls) ==
    CASE cls = "Path" -> {"__init__", "specifies", "_parse_dir", "parse"}
      [] cls = "Paths" -> {"__init__", "specifies", "_parse_dir", "parse"}
      [] OTHER -> {}
Instantiate(cls, format) ==
    IF BaseSpecAbstract \ Defines(cls) # {} THEN "TypeError" ELSE Path_init(format)

\* format_glob = re.sub(r'\{.*?\}', '*', self.format)
format_glob(format) ==
    [i \in DOMAIN format |-> IF format[i].f = "field" THEN "*" ELSE format[i].c]

\* Whether base_path.glob(pattern) yields the relative path s: a "*" stands for any
\* run of characters of one path component.
RECURSIVE GlobMatch(_, _)
GlobMatch(pattern, s) ==
    IF pattern = <<>> THEN s = <<>>
    ELSE IF Head(pattern) = "*"
    THEN \/ GlobMatch(Tail(pattern), s)
         \/ s # <<>> /\ Head(s) # "/" /\ GlobMatch(pattern, Tail(s))
    ELSE s # <<>> /\ Head(s) = Head(pattern) /\ GlobMatch(Tail(pattern), Tail(s))

\* self.parser.parse(s): a field takes one character or more, the fewest that let the
\* rest match; {name:d} takes digits only and yields an int.  [ok, named].
NoParse == [ok |-> FALSE, named |-> EmptyDict]
FieldValue(tok, cap) == IF tok.type = "d" THEN PyInt(IntOf(cap, 0)) ELSE PyStr(Join(cap))
RECURSIVE ParseFrom(_, _)
RECURSIVE TryField(_, _, _)
ParseFrom(format, s) ==
    IF format = <<>> THEN [ok |-> s = <<>>, named |-> EmptyDict]
    ELSE IF Head(format).f = "lit"
    THEN IF s # <<>> /\ Head(s) = Head(format).c
         THEN ParseFrom(Tail(format), Tail(s))
         ELSE NoParse
    ELSE TryField(format, s, 1)
TryField(format, s, n) ==
    IF n > Len(s) THEN NoParse
    ELSE LET tok == Head(format)
             cap == SubSeq(s, 1, n)
             fits == tok.type = "d" => \A i \in DOMAIN cap : cap[i] \in Digits
             rest == ParseFrom(Tail(format), SubSeq(s, n + 1, Len(s)))
         IN  IF fits /\ rest.ok
             THEN [ok |-> TRUE,
                   named |-> IF tok.name = "" THEN rest.named
                             ELSE (tok.name :> FieldValue(tok, cap)) @@ rest.named]
             ELSE TryField(format, s, n + 1)

\* A _parse_dir that returns the empty list when nothing was parsed.
parse_dir_without_raise(format, files) ==
    LET matching == SelectSeq(FileOrder, LAMBDA s : s \in files /\ GlobMatch(format_glob(format), s))
        parsed == SelectSeq(matching, LAMBDA s : ParseFrom(format, s).ok)
    IN  [raised |-> "none", matching_files |-> Range(matching),
         results |-> [i \in DOMAIN parsed |-> ParseFrom(format, parsed[i]).named]]

\* Path._parse_dir(base_path) for a base directory holding `files`:
\* [raised, matching_files, results].
Path_parse_dir(format, files) ==
    LET matching == SelectSeq(FileOrder, LAMBDA s : s \in files /\ GlobMatch(format_glob(format), s))
        parsed == SelectSeq(matching, LAMBDA s : ParseFrom(format, s).ok)
    IN  [raised |-> IF Len(parsed) = 0 THEN "ValueError" ELSE "none",
         matching_files |-> Range(matching),
         results |-> [i \in DOMAIN parsed |-> ParseFrom(format, parsed[i]).named]]

\* The iteration order of sets of captured values in this process.
CaptureHashOrd ==
    <<PyStr("m1"), PyStr("m2"), PyStr("s1"), PyStr("s2"), PyStr("sx"), PyInt(1), PyInt(2)>>

\* Path.parse(base_path) and Paths.parse(base_path): [raised, matching_files, results, value]
Path_parse(cls, format, files) ==
    LET d == Path_parse_dir(format, files)
        r == IF cls = "Path" THEN Path_parse_results(d.results, CaptureHashOrd)
             ELSE Paths_parse_results(d.results, CaptureHashOrd)
    IN  IF d.raised # "none"
        THEN [raised |-> d.raised, matching_files |-> d.matching_files,
              results |-> <<>>, value |-> EmptyDict]
        ELSE [raised |-> r.raised, matching_files |-> d.matching_files,
              results |-> d.results, value |-> r.value]

TemplateResult(op, cls, format, raised) ==
    [op |-> op, cls |-> cls, format |-> format, raised |-> raised,
     matching_files |-> {}, results |-> <<>>, value |-> EmptyDict]

InitTemplate ==
    /\ tree \in Trees
    /\ tres = NoResult
    /\ MergeIdle /\ DedupeIdle /\ ChainIdle /\ SidecarIdle /\ ConverterIdle

\* Path(format), Paths(format)
NewPath ==
    \E cls \in {"Path", "Paths"}, format \in Formats :
        /\ tres' = TemplateResult("new", cls, format, Instantiate(cls, format))
        /\ UNCHANGED <<tree, chainVars, mergeVars, dedupeVars, sidecarVars, converterVars>>

\* Path.__init__ run by a subclass that defines what Path leaves abstract
InitPath ==
    \E cls \in {"Path", "Paths"}, format \in Formats :
        /\ tres' = TemplateResult("__init__", cls, format, Path_init(format))
        /\ UNCHANGED <<tree, chainVars, mergeVars, dedupeVars, sidecarVars, converterVars>>

\* parse(base_path) of such an object, the base directory holding `tree`
ParsePath ==
    \E cls \in {"Path", "Paths"}, format \in Formats :
        /\ Path_init(format) = "none"
        /\ LET r == Path_parse(cls, format, tree)
           IN  tres' = [TemplateResult("parse", cls, format, r.raised) EXCEPT
                            !.matching_files = r.matching_files,
                            !.results = r.results, !.value = r.value]
        /\ UNCHANGED <<tree, chainVars, mergeVars, dedupeVars, sidecarVars, converterVars>>

NextTemplate == NewPath \/ InitPath \/ ParsePath

SpecTemplate == InitTemplate /\ [][NextTemplate]_vars

(***************************************************************************)
(* External files: spec/external_file.py, BaseExternalFileSpec._parse with *)
(* the cache loaded_files that all objects share, and JSON._load_file.     *)
(* A path is the sequence of its parts; base_path / self.path appends the  *)
(* parts of the relative path to those of the base.                        *)
(***************************************************************************)
MaxLoads == 2       \* loads of one file that are counted

SidecarBases == {<<"d">>, <<"d", "s">>}
SidecarPaths == {<<"meta.json">>, <<"s", "meta.json">>}
AbsPaths == {b \o r : b \in SidecarBases, r \in SidecarPaths}

\* What open() and json.load give for a file: its content, no such file, or text
\* that is no JSON.
Loadable(content) == [t |-> "json", v |-> content]
Missing == [t |-> "missing", v |-> EmptyDict]
Malformed == [t |-> "malformed", v |-> EmptyDict]
FileContent(p) == SidecarAt(Len(p))
Disks == [AbsPaths -> {"json", "missing", "malformed"}]
DiskOf(kinds) ==
    [p \in AbsPaths |-> CASE kinds[p] = "json" -> Loadable(FileContent(p))
                          [] kinds[p] = "missing" -> Missing
                          [] OTHER -> Malformed]

\* JSON(hook, path, key, field, cache) objects.  The hook is None or a callable that
\* json.load applies to every object it decodes; the one here writes the value of
\* "subject" in capitals.
SidecarFields ==
    {<<"subject">>, <<"session", "id">>, <<"session", "name">>, <<"age">>,
     <<"subject", "id">>, <<>>}
SidecarObjects ==
    [path : SidecarPaths, key : {"id"}, field : SidecarFields, cache : BOOLEAN,
     hook : {"None"}]
    \cup [path : SidecarPaths, key : {"id"}, field : {<<"subject">>}, cache : BOOLEAN,
          hook : {"upper"}]
object_hook(hook, loaded) ==
    IF hook = "upper" /\ "subject" \in DOMAIN loaded
    THEN [loaded EXCEPT !["subject"] = PyStr("M1")]
    ELSE loaded

\* BaseExternalFileSpec._sub_select: the loop leaves sub_select = {} for an empty field
ExternalFile_sub_select(loaded_file, field) ==
    IF field = <<>> THEN [raised |-> "none", value |-> PyDict(EmptyDict), args |-> <<>>]
    ELSE sub_select(PyDict(loaded_file), field)

\* JSON._load_file(path) with object_hook = hook: [raised, args, value]
PyPath(parts) == [t |-> "path", v |-> parts]
load_file(fs, file_path, hook) ==
    CASE fs[file_path].t = "json" ->
            [raised |-> "none", args |-> <<>>, value |-> object_hook(hook, fs[file_path].v)]
      [] fs[file_path].t = "missing" ->
            [raised |-> "FileNotFoundError", args |-> <<PyPath(file_path)>>,
             value |-> EmptyDict]
      [] OTHER ->
            [raised |-> "JSONDecodeError", args |-> <<>>, value |-> EmptyDict]

StoreFile(files, file_path, loaded_file) ==
    [p \in DOMAIN files \cup {file_path} |->
        IF p = file_path THEN loaded_file ELSE files[p]]

\* A _parse that never looks into the cache and stores what it loaded.
parse_always_loading(obj, base_path, files, fs) ==
    LET file_path == base_path \o obj.path
        l == load_file(fs, file_path, obj.hook)
        sel == ExternalFile_sub_select(l.value, obj.field)
    IN  IF l.raised # "none"
        THEN [raised |-> l.raised, args |-> l.args, value |-> EmptyDict,
              files |-> files, hit |-> FALSE]
        ELSE [raised |-> sel.raised, args |-> sel.args,
              value |-> IF sel.raised = "none" THEN (obj.key :> sel.value) ELSE EmptyDict,
              files |-> IF obj.cache THEN StoreFile(files, file_path, l.value) ELSE files,
              hit |-> FALSE]

\* A _parse that enters the file into the cache before it loads it.
parse_storing_first(obj, base_path, files, fs) ==
    LET file_path == base_path \o obj.path
        hit == obj.cache /\ file_path \in DOMAIN files
        l == load_file(fs, file_path, obj.hook)
        loaded_file == IF hit THEN files[file_path] ELSE l.value
        stored == IF ~hit /\ obj.cache THEN StoreFile(files, file_path, l.value) ELSE files
        sel == ExternalFile_sub_select(loaded_file, obj.field)
    IN  IF ~hit /\ l.raised # "none"
        THEN [raised |-> l.raised, args |-> l.args, value |-> EmptyDict,
              files |-> stored, hit |-> FALSE]
        ELSE [raised |-> sel.raised, args |-> sel.args,
              value |-> IF sel.raised = "none" THEN (obj.key :> sel.value) ELSE EmptyDict,
              files |-> stored, hit |-> hit]

\* A _parse that uses the cache whatever the object's cache flag says.
parse_ignoring_cache_flag(obj, base_path, files, fs) ==
    LET file_path == base_path \o obj.path
        hit == file_path \in DOMAIN files
        l == load_file(fs, file_path, obj.hook)
        loaded_file == IF hit THEN files[file_path] ELSE l.value
        sel == ExternalFile_sub_select(loaded_file, obj.field)
    IN  IF ~hit /\ l.raised # "none"
        THEN [raised |-> l.raised, args |-> l.args, value |-> EmptyDict,
              files |-> files, hit |-> FALSE]
        ELSE [raised |-> sel.raised, args |-> sel.args,
              value |-> IF sel.raised = "none" THEN (obj.key :> sel.value) ELSE EmptyDict,
              files |-> IF hit THEN files ELSE StoreFile(files, file_path, loaded_file),
              hit |-> hit]

\* BaseExternalFileSpec._parse(base_path) of obj, against the cache `files` and the
\* file system fs: [raised, args, value, files, hit], files being the cache as the
\* call leaves it and hit telling that the cache was used.
external_file_parse(obj, base_path, files, fs) ==
    LET file_path == base_path \o obj.path
        hit == obj.cache /\ file_path \in DOMAIN files
        l == load_file(fs, file_path, obj.hook)
        loaded_file == IF hit THEN files[file_path] ELSE l.value
        stored == IF ~hit /\ obj.cache THEN StoreFile(files, file_path, loaded_file) ELSE files
        sel == ExternalFile_sub_select(loaded_file, obj.field)
    IN  IF ~hit /\ l.raised # "none"
        THEN [raised |-> l.raised, args |-> l.args, value |-> EmptyDict,
              files |-> files, hit |-> FALSE]
        ELSE [raised |-> sel.raised, args |-> sel.args,
              value |-> IF sel.raised = "none" THEN (obj.key :> sel.value) ELSE EmptyDict,
              files |-> stored, hit |-> hit]

NoLoads == [p \in AbsPaths |-> [cached |-> 0, failed |-> 0]]

InitSidecar ==
    /\ \E kinds \in Disks : disk = DiskOf(kinds)
    /\ loads = NoLoads
    /\ sres = NoResult
    /\ child = <<>> /\ parent = <<>> /\ loaded_files = <<>> /\ last = NoCall
    /\ MergeIdle /\ DedupeIdle /\ TemplateIdle /\ ConverterIdle

\* obj.parse(base_path) of an object with no child: BaseSpec.parse calls
\* self._parse(base_path) and returns its result.
SidecarParse ==
    \E obj \in SidecarObjects, base_path \in SidecarBases :
        LET file_path == base_path \o obj.path
            r == external_file_parse(obj, base_path, loaded_files, disk)
            failed == ~r.hit /\ disk[file_path].t # "json"
            count == loads[file_path]
        IN  /\ r.hit \/ ~obj.cache \/ (IF failed THEN count.failed < MaxLoads
                                       ELSE count.cached < MaxLoads)
            /\ loaded_files' = r.files
            /\ loads' = [loads EXCEPT ![file_path] =
                            IF r.hit \/ ~obj.cache THEN count
                            ELSE IF failed THEN [count EXCEPT !.failed = @ + 1]
                            ELSE [count EXCEPT !.cached = @ + 1]]
            /\ sres' = [op |-> "parse", obj |-> obj, base_path |-> base_path,
                        file_path |-> file_path, raised |-> r.raised, args |-> r.args,
                        value |-> r.value, hit |-> r.hit]
            /\ UNCHANGED <<child, parent, last, disk, mergeVars, dedupeVars, templateVars,
                           converterVars>>

NextSidecar == SidecarParse

SpecSidecar == InitSidecar /\ [][NextSidecar]_vars

(***************************************************************************)
(* The converter: nwbconverter.py, NWBConverter.add_interface, the schema  *)
(* getters and the part of run_conversion that instantiates the            *)
(* interfaces.  A dict that is iterated is the sequence of its items in    *)
(* insertion order.                                                        *)
(***************************************************************************)
MaxRegistrations == 2   \* add_interface calls that register

\* Two of the interface classes list_interfaces finds, both subclasses of
\* BaseRecordingExtractorInterface.  'required' of the source schema of each is read
\* off the signature of its extractor, whose one argument without a default is
\* file_path.
InterfaceClasses == {"IntanRecordingInterface", "CEDRecordingInterface"}
RequiredOf(cls) == {"file_path"}
SpecKey(cls) ==
    IF cls = "IntanRecordingInterface" THEN <<"recording", "intan">>
    ELSE <<"recording", "ced">>
SourceSchema(cls) == [tag |-> cls, required |-> RequiredOf(cls)]
OptionsSchema(cls) == [tag |-> cls, required |-> {}]

\* type(interface).__name__ of a class: the name of its metaclass, and every subclass
\* of BaseDataInterface(ABC) has the metaclass ABCMeta.
TypeName(cls) == "ABCMeta"

\* The spec argument of add_interface as the caller writes it: None, Path(format) or
\* JSON(path, key), with no child.  "{file_path}.dat" names the one required property.
FormatFilePath == <<Field("file_path", "")>> \o Lits(DotDat)
PathSpec(format) == [cls |-> "Path", format |-> format, key |-> ""]
JsonSpec(key) == [cls |-> "JSON", format |-> <<>>, key |-> key]
NoSpec == [cls |-> "None", format |-> <<>>, key |-> ""]
SpecArguments == {NoSpec, PathSpec(FormatFilePath), JsonSpec("file_path")}
\* What evaluating the argument raises, before add_interface is entered
SpecRaises(spec) ==
    IF spec.cls = "Path" THEN Instantiate(spec.cls, spec.format) ELSE "none"
spec_specifies(spec) ==
    IF spec.cls = "Path" THEN named_fields(spec.format) ELSE Chars(spec.key)
KwargsArguments == DictsOver({"file_path"}, {PyStr("v")})

\* device_class(**device_kwargs): an instance of the class, made from the arguments
PyInstance(cls, args) == [t |-> "instance", cls |-> cls, args |-> args]

\* The index of key in the items of a dict, 0 when it has no such key
IndexOf(items, key) ==
    IF \E i \in DOMAIN items : items[i].key = key
    THEN CHOOSE i \in DOMAIN items : items[i].key = key
    ELSE 0
SetItem(items, key, value) ==
    IF IndexOf(items, key) = 0 THEN Append(items, [key |-> key, value |-> value])
    ELSE [items EXCEPT ![IndexOf(items, key)].value = value]

\* A call that names an interface type and a device name, or leaves one of them out
InterfaceArguments == InterfaceClasses \cup {"None"}

\* An add_interface that goes on to the check of the required properties when it
\* is given neither a literal nor a resolver.
add_interface_without_advice(classes, specs, interface, spec, kwargs) ==
    LET unchanged == [registered |-> FALSE, classes |-> classes, specs |-> specs]
        full_spec == [interface |-> interface, spec |-> spec, kwargs |-> kwargs]
        at == IndexOf(specs, SpecKey(interface))
    IN  IF interface = "None" THEN unchanged @@ [raised |-> "ValueError"]
        ELSE IF RequiredOf(interface) \
                    (DOMAIN kwargs \cup
                        (IF spec = NoSpec THEN {} ELSE Range(spec_specifies(spec)))) # {}
        THEN unchanged @@ [raised |-> "ValueError"]
        ELSE [raised |-> "none", registered |-> TRUE,
              classes |-> SetItem(classes, TypeName(interface), interface),
              specs |-> IF at = 0
                        THEN Append(specs, [key |-> SpecKey(interface), value |-> <<full_spec>>])
                        ELSE [specs EXCEPT ![at].value = Append(@, full_spec)]]

\* NWBConverter.add_interface(interface_type, device_name, spec, **kwargs), the type
\* and the name being those of `interface`: [raised, registered, classes, specs] with
\* data_interface_classes and _spec as the call leaves them.
add_interface(classes, specs, interface, spec, kwargs) ==
    LET required == RequiredOf(interface)
        specified == DOMAIN kwargs \cup
                        (IF spec = NoSpec THEN {} ELSE Range(spec_specifies(spec)))
        full_spec == [interface |-> interface, spec |-> spec, kwargs |-> kwargs]
        at == IndexOf(specs, SpecKey(interface))
    IN  IF interface = "None"
        THEN [raised |-> "ValueError", registered |-> FALSE, classes |-> classes,
              specs |-> specs]
        ELSE IF DOMAIN kwargs = {} /\ spec = NoSpec
        THEN [raised |-> "none", registered |-> FALSE, classes |-> classes, specs |-> specs]
        ELSE IF required \ specified # {}
        THEN [raised |-> "ValueError", registered |-> FALSE, classes |-> classes,
              specs |-> specs]
        ELSE [raised |-> "none", registered |-> TRUE,
              classes |-> SetItem(classes, TypeName(interface), interface),
              specs |-> IF at = 0
                        THEN Append(specs, [key |-> SpecKey(interface), value |-> <<full_spec>>])
                        ELSE [specs EXCEPT ![at].value = Append(@, full_spec)]]

\* All the full specs of _spec, in the order the two loops of run_conversion visit them
RECURSIVE FullSpecs(_)
FullSpecs(specs) ==
    IF specs = <<>> THEN <<>> ELSE Head(specs).value \o FullSpecs(Tail(specs))

\* A loop that calls device_class() and leaves the kwargs out.
instantiate_without_kwargs(todo, objects, made) ==
    IF todo = <<>> THEN [raised |-> "none", objects |-> objects, made |-> made]
    ELSE [raised |-> "none",
          objects |-> SetItem(objects, TypeName(Head(todo).interface),
                              PyList(<<PyInstance(Head(todo).interface, EmptyDict)>>)),
          made |-> Append(made, PyInstance(Head(todo).interface, EmptyDict))]

\* The loops of run_conversion over the full specs in `todo`: [raised, objects, made],
\* data_interface_objects as the loops leave it and the constructor calls made.
RECURSIVE instantiate(_, _, _)
instantiate(todo, objects, made) ==
    IF todo = <<>> THEN [raised |-> "none", objects |-> objects, made |-> made]
    ELSE LET full_interface_spec == Head(todo)
             device_class == full_interface_spec.interface
             device_kwargs == full_interface_spec.kwargs
             device_class_name == TypeName(device_class)
             interface_instance == PyInstance(device_class, device_kwargs)
             at == IndexOf(objects, device_class_name)
         IN  IF full_interface_spec.spec # NoSpec
             THEN \* device_spec.parse(base_dir, metadata): parse takes the base path only
                  [raised |-> "TypeError", objects |-> objects, made |-> made]
             ELSE IF at # 0 /\ objects[at].value.t # "list"
             THEN \* list(instance): an interface object cannot be iterated
                  [raised |-> "TypeError", objects |-> objects,
                   made |-> Append(made, interface_instance)]
             ELSE instantiate(Tail(todo),
                              IF at = 0
                              THEN SetItem(objects, device_class_name,
                                           PyList(<<interface_instance>>))
                              ELSE [objects EXCEPT ![at].value =
                                        PyList(Append(@.v, interface_instance))],
                              Append(made, interface_instance))

\* The keys and values of 'properties' that get_source_schema and
\* get_conversion_options_schema build from data_interface_classes
schema_properties(classes, method) ==
    [i \in DOMAIN classes |->
        [key |-> classes[i].key,
         value |-> IF method = "get_source_schema" THEN SourceSchema(classes[i].value)
                   ELSE OptionsSchema(classes[i].value)]]

\* BaseRecordingExtractorInterface.get_metadata_schema, unrooted: every recording
\* interface contributes the same three properties under Ecephys, all required.
SubSchema(name) == PyDict([tag |-> PyStr(name)])
EcephysNames == <<"Device", "ElectrodeGroup", "ElectricalSeries">>
interface_metadata_schema(instance) ==
    [properties |-> PyDict([Ecephys |-> PyDict(
        [properties |-> PyDict([n \in Range(EcephysNames) |-> SubSchema(n)]),
         required |-> PyList([i \in DOMAIN EcephysNames |-> PyStr(EcephysNames[i])])])])]

\* The base document of NWBConverter.get_metadata_schema
base_metadata_schema ==
    [properties |-> PyDict([NWBFile |-> SubSchema("NWBFile"), Subject |-> SubSchema("Subject")]),
     required |-> PyList(<<PyStr("NWBFile")>>)]

\* NWBConverter.get_metadata_schema: the loop over data_interface_objects.values()
\* calls get_metadata_schema on each value, which a list does not have, and merges
\* what each returns into the schema: [raised, value].
RECURSIVE get_metadata_schema(_, _)
get_metadata_schema(objects, metadata_schema) ==
    IF objects = <<>> THEN [raised |-> "none", value |-> metadata_schema]
    ELSE LET data_interface == Head(objects).value
         IN  IF data_interface.t = "list"
             THEN [raised |-> "AttributeError", value |-> EmptyDict]
             ELSE get_metadata_schema(Tail(objects),
                     dict_deep_update(metadata_schema,
                                      interface_metadata_schema(data_interface)))

\* What add_metadata is given: a dict of static metadata, a JSON object with no
\* child, or (as its docstring offers) the name of a metadata property.  The
\* objects are made with cache=False and read meta.json under the base directory.
MaxMetadata == 2    \* add_metadata calls that add a resolver
MetadataSpec(key, field) ==
    [path |-> <<"meta.json">>, key |-> key, field |-> field, cache |-> FALSE,
     hook |-> "None"]
MetadataSpecs ==
    {MetadataSpec("Subject", <<"subject">>), MetadataSpec("Subject", <<"session", "id">>),
     MetadataSpec("Session", <<"age">>)}
StaticArguments == {[Subject |-> PyStr("static")], [Ecephys |-> PyStr("static")]}
PySpec(obj) == [t |-> "spec", v |-> obj]
AddMetadataArguments ==
    {PyDict(d) : d \in StaticArguments} \cup {PySpec(obj) : obj \in MetadataSpecs}
        \cup {PyStr("Subject")}

\* NWBConverter.add_metadata(spec): [raised, specs, static] with _metadata_spec and
\* _static_metadata as the call leaves them.
add_metadata(specs, static, spec) ==
    CASE spec.t = "dict" ->
            [raised |-> "none", specs |-> specs, static |-> dict_deep_update(static, spec.v)]
      [] spec.t = "spec" ->
            [raised |-> "none", specs |-> Append(specs, spec.v), static |-> static]
      [] OTHER ->
            [raised |-> "ValueError", specs |-> specs, static |-> static]

\* The interface objects of data_interface_objects in the order the loops of
\* get_metadata and run_conversion visit them: a value is one object or a list
RECURSIVE interfaces_of(_)
interfaces_of(objects) ==
    IF objects = <<>> THEN <<>>
    ELSE (IF Head(objects).value.t = "list" THEN Head(objects).value.v
          ELSE <<Head(objects).value>>) \o interfaces_of(Tail(objects))

\* get_default_nwbfile_metadata(): the file-level fields every run starts from
get_default_nwbfile_metadata ==
    [NWBFile |-> PyDict([session_description |-> PyStr("no description")])]

\* get_metadata of one interface object: IntanRecordingInterface reads Ecephys
\* metadata off its file, CEDRecordingInterface inherits the empty dict.
interface_get_metadata(instance) ==
    IF instance.cls = "IntanRecordingInterface"
    THEN [Ecephys |-> PyDict([Device |-> PyStr("Intan")])]
    ELSE EmptyDict

\* metadata = dict_deep_update(metadata, u) for each u of updates in turn
RECURSIVE update_all(_, _)
update_all(metadata, updates) ==
    IF updates = <<>> THEN metadata
    ELSE update_all(dict_deep_update(metadata, Head(updates)), Tail(updates))

\* NWBConverter.get_metadata
get_metadata(objects) ==
    update_all(get_default_nwbfile_metadata,
               [i \in DOMAIN interfaces_of(objects) |->
                    interface_get_metadata(interfaces_of(objects)[i])])

\* The files run_conversion finds under each base directory
ConverterDisk == DiskOf([p \in AbsPaths |-> "json"])

\* metadata_spec.parse(base_dir) for each object of _metadata_spec in turn:
\* [raised, fragments], the dicts that were returned before one raised.
RECURSIVE parse_metadata_spec(_, _, _)
parse_metadata_spec(specs, base_dir, fragments) ==
    IF specs = <<>> THEN [raised |-> "none", fragments |-> fragments]
    ELSE LET r == external_file_parse(Head(specs), base_dir, <<>>, ConverterDisk)
         IN  IF r.raised # "none" THEN [raised |-> r.raised, fragments |-> fragments]
             ELSE parse_metadata_spec(Tail(specs), base_dir, Append(fragments, r.value))

\* A merge that lays the static metadata down before the parsed fragments.
resolve_metadata_static_first(metadata, fragments, static) ==
    update_all(dict_deep_update(metadata, static), fragments)

\* run_conversion before the devices are instantiated: the parsed fragments are
\* merged into the starting metadata in turn, and the static metadata after them.
resolve_metadata(metadata, fragments, static) ==
    dict_deep_update(update_all(metadata, fragments), static)

\* The spec objects' to_dict and the module's from_dict: a dict that names the class
\* and the arguments of the object, and the object made from such a dict.
to_dict(spec) == PyDict([class |-> PyStr(IF "cls" \in DOMAIN spec THEN spec.cls ELSE "JSON"),
                         arguments |-> spec])
from_dict(spec_dict) == spec_dict.v.arguments

\* json.dump followed by json.load of a value: a tuple comes back as a list
json_load_dump(x) == IF x.t = "tuple" THEN PyList(x.v) ELSE x

\* list_interfaces(interface_type, device_name)
list_interfaces(spec_key) == CHOOSE cls \in InterfaceClasses : SpecKey(cls) = spec_key

\* NWBConverter.to_json: the dict it builds from _spec, _static_metadata and
\* _metadata_spec
RECURSIVE to_json_interfaces(_)
to_json_interfaces(specs) ==
    IF specs = <<>> THEN <<>>
    ELSE [i \in DOMAIN Head(specs).value |->
            [spec_key |-> Head(specs).key,
             spec |-> IF Head(specs).value[i].spec = NoSpec THEN NoDict
                      ELSE to_dict(Head(specs).value[i].spec),
             kwargs |-> Head(specs).value[i].kwargs]] \o to_json_interfaces(Tail(specs))
to_json(specs, specs_md, static) ==
    [interfaces |-> to_json_interfaces(specs),
     static_metadata |-> static,
     metadata_spec |-> [i \in DOMAIN specs_md |-> to_dict(specs_md[i])]]

\* The two loops of from_json over params: add_metadata for every dict of
\* metadata_spec and for static_metadata, add_interface for every interface.
RECURSIVE from_json_metadata(_, _)
from_json_metadata(dicts, c) ==
    IF dicts = <<>> \/ c.raised # "none" THEN c
    ELSE LET r == add_metadata(c.metadata_spec, c.static_metadata,
                               PySpec(from_dict(Head(dicts))))
         IN  from_json_metadata(Tail(dicts),
                [c EXCEPT !.raised = r.raised, !.metadata_spec = r.specs,
                          !.static_metadata = r.static])
RECURSIVE from_json_interfaces(_, _)
from_json_interfaces(interfaces, c) ==
    IF interfaces = <<>> \/ c.raised # "none" THEN c
    ELSE LET interface == Head(interfaces)
             r == add_interface(c.data_interface_classes, c.interface_specs,
                                list_interfaces(interface.spec_key),
                                IF interface.spec = NoDict THEN NoSpec
                                ELSE from_dict(interface.spec),
                                interface.kwargs)
         IN  from_json_interfaces(Tail(interfaces),
                [c EXCEPT !.raised = r.raised, !.data_interface_classes = r.classes,
                          !.interface_specs = r.specs])

\* NWBConverter(): the attributes __init__ sets
NewConverter ==
    [raised |-> "none", data_interface_classes |-> <<>>, interface_specs |-> <<>>,
     metadata_spec |-> <<>>, static_metadata |-> EmptyDict]

\* from_json(json_path): given the path of the file, params is what json.load reads;
\* given a dict, params is the type dict, which has none of the three entries:
\* subscripting it, or iterating or subscripting the alias that comes of it, raises
\* TypeError before anything is added to the new converter.
JsonRoutes == {"file", "dict"}
from_json(route, params) ==
    IF route = "dict" THEN [NewConverter EXCEPT !.raised = "TypeError"]
    ELSE LET loaded == [params EXCEPT !.interfaces =
                            [i \in DOMAIN @ |->
                                [@[i] EXCEPT !.kwargs =
                                    [k \in DOMAIN @ |-> json_load_dump(@[k])]]]]
             m == from_json_metadata(loaded.metadata_spec, NewConverter)
             s == IF m.raised # "none" THEN m
                  ELSE LET r == add_metadata(m.metadata_spec, m.static_metadata,
                                             PyDict(loaded.static_metadata))
                       IN  [m EXCEPT !.raised = r.raised, !.metadata_spec = r.specs,
                                     !.static_metadata = r.static]
         IN  from_json_interfaces(loaded.interfaces, s)

ConverterResult(op, raised) ==
    [op |-> op, raised |-> raised, interface |-> "", spec |-> NoSpec, kwargs |-> EmptyDict,
     registered |-> FALSE, properties |-> <<>>, value |-> EmptyDict]

\* A converter is made by NWBConverter(), or in the old style: a subclass declares
\* data_interface_classes under names of its own and __init__ makes one object of
\* each class that source_data names.
OldStyleClasses ==
    <<[key |-> "IntanRecording", value |-> "IntanRecordingInterface"],
      [key |-> "CEDRecording", value |-> "CEDRecordingInterface"]>>
OldStyleSourceData(cls) == [k \in RequiredOf(cls) |-> PyStr("v")]
ClassAttributes == {<<>>, OldStyleClasses}

\* The metadata argument of run_conversion: None or a dict of the caller's
MetadataArguments == {NoDict, [Ecephys |-> PyStr("start"), Subject |-> PyStr("start")]}

InitConverter ==
    /\ data_interface_classes \in ClassAttributes
    /\ interface_specs = <<>>
    /\ data_interface_objects =
            [i \in DOMAIN data_interface_classes |->
                [key |-> data_interface_classes[i].key,
                 value |-> PyInstance(data_interface_classes[i].value,
                                      OldStyleSourceData(data_interface_classes[i].value))]]
    /\ constructed = <<>>
    /\ metadata_spec = <<>> /\ static_metadata = EmptyDict /\ self_metadata = NoDict
    /\ cres = NoResult
    /\ MergeIdle /\ DedupeIdle /\ ChainIdle /\ TemplateIdle /\ SidecarIdle

AddInterface ==
    \E interface \in InterfaceArguments, spec \in SpecArguments, kwargs \in KwargsArguments :
        LET unchanged == [raised |-> SpecRaises(spec), registered |-> FALSE,
                          classes |-> data_interface_classes, specs |-> interface_specs]
            r == IF SpecRaises(spec) # "none" THEN unchanged
                 ELSE add_interface(data_interface_classes, interface_specs, interface,
                                    spec, kwargs)
        IN  /\ Len(FullSpecs(interface_specs)) < MaxRegistrations
            /\ data_interface_classes' = r.classes
            /\ interface_specs' = r.specs
            /\ cres' = [ConverterResult("add_interface", r.raised) EXCEPT
                            !.interface = interface, !.spec = spec, !.kwargs = kwargs,
                            !.registered = r.registered]
            /\ UNCHANGED <<data_interface_objects, constructed, metadata_spec,
                           static_metadata, self_metadata, chainVars, mergeVars,
                           dedupeVars, templateVars, sidecarVars>>

AddMetadata ==
    \E spec \in AddMetadataArguments :
        LET r == add_metadata(metadata_spec, static_metadata, spec)
        IN  /\ spec.t = "spec" => Len(metadata_spec) < MaxMetadata
            /\ metadata_spec' = r.specs
            /\ static_metadata' = r.static
            /\ cres' = [ConverterResult("add_metadata", r.raised) EXCEPT !.spec = spec]
            /\ UNCHANGED <<data_interface_classes, interface_specs, data_interface_objects,
                           constructed, self_metadata, chainVars, mergeVars, dedupeVars,
                           templateVars, sidecarVars>>

\* run_conversion(metadata, conversion_options, base_dir): `calls` lists what the
\* run called, in order, and `converted` the interface objects whose run_conversion
\* was handed the final metadata.
RunConversion ==
    \E metadata \in MetadataArguments, conversion_options \in {NoDict, EmptyDict},
       base_dir \in SidecarBases :
        LET start == IF metadata # NoDict THEN metadata
                     ELSE IF self_metadata = NoDict
                          THEN get_metadata(data_interface_objects)
                          ELSE self_metadata
            p == parse_metadata_spec(metadata_spec, base_dir, <<>>)
            resolved == resolve_metadata(start, p.fragments, static_metadata)
            i == instantiate(FullSpecs(interface_specs), data_interface_objects,
                             constructed)
            derived == get_metadata(i.objects)
            final == dict_deep_update(resolved, derived)
            done == p.raised = "none" /\ i.raised = "none"
            converted == IF done THEN interfaces_of(i.objects) ELSE <<>>
            calls == (IF conversion_options = NoDict THEN <<>>
                      ELSE <<"validate(conversion_options)">>)
                     \o (IF metadata = NoDict /\ self_metadata = NoDict
                         THEN <<"get_metadata">> ELSE <<>>)
                     \o [n \in 1..(Len(p.fragments) + IF p.raised = "none" THEN 0 ELSE 1)
                            |-> "metadata_spec.parse"]
                     \o (IF p.raised # "none" THEN <<>>
                         ELSE [n \in 1..(Len(i.made) - Len(constructed)) |-> "device_class"]
                              \o (IF i.raised # "none" THEN <<>>
                                  ELSE <<"get_metadata">>
                                       \o [n \in DOMAIN converted |->
                                               "data_interface.run_conversion"]))
        IN  /\ Len(constructed) < MaxRegistrations
            /\ self_metadata' = IF metadata = NoDict THEN start ELSE self_metadata
            /\ data_interface_objects' =
                    IF p.raised = "none" THEN i.objects ELSE data_interface_objects
            /\ constructed' = IF p.raised = "none" THEN i.made ELSE constructed
            /\ cres' = [ConverterResult("run_conversion",
                                        IF p.raised # "none" THEN p.raised ELSE i.raised)
                            EXCEPT !.value = IF done THEN final ELSE EmptyDict]
                       @@ [start |-> start, fragments |-> p.fragments,
                           static |-> static_metadata,
                           derived |-> IF done THEN derived ELSE EmptyDict,
                           converted |-> converted, calls |-> calls]
            /\ UNCHANGED <<data_interface_classes, interface_specs, metadata_spec,
                           static_metadata, chainVars, mergeVars, dedupeVars,
                           templateVars, sidecarVars>>

GetSourceSchema ==
    /\ cres' = [ConverterResult("get_source_schema", "none") EXCEPT
                    !.properties = schema_properties(data_interface_classes, "get_source_schema")]
    /\ UNCHANGED <<data_interface_classes, interface_specs, data_interface_objects,
                   constructed, metadata_spec, static_metadata, self_metadata,
                   chainVars, mergeVars, dedupeVars, templateVars, sidecarVars>>

GetConversionOptionsSchema ==
    /\ cres' = [ConverterResult("get_conversion_options_schema", "none") EXCEPT
                    !.properties = schema_properties(data_interface_classes, "get_conversion_options_schema")]
    /\ UNCHANGED <<data_interface_classes, interface_specs, data_interface_objects,
                   constructed, metadata_spec, static_metadata, self_metadata,
                   chainVars, mergeVars, dedupeVars, templateVars, sidecarVars>>

GetMetadataSchema ==
    LET r == get_metadata_schema(data_interface_objects, base_metadata_schema)
    IN  /\ cres' = [ConverterResult("get_metadata_schema", r.raised) EXCEPT
                        !.value = r.value]
        /\ UNCHANGED <<data_interface_classes, interface_specs, data_interface_objects,
                       constructed, metadata_spec, static_metadata, self_metadata,
                       chainVars, mergeVars, dedupeVars, templateVars, sidecarVars>>

ToJson ==
    /\ cres' = [ConverterResult("to_json", "none") EXCEPT
                    !.value = to_json(interface_specs, metadata_spec, static_metadata)]
    /\ UNCHANGED <<data_interface_classes, interface_specs, data_interface_objects,
                   constructed, metadata_spec, static_metadata, self_metadata,
                   chainVars, mergeVars, dedupeVars, templateVars, sidecarVars>>

\* NWBConverter.from_json of what the to_json before it wrote or returned
FromJson ==
    \E route \in JsonRoutes :
        /\ cres.op = "to_json" /\ cres.raised = "none"
        /\ cres' = [op |-> "from_json", route |-> route,
                    raised |-> from_json(route, cres.value).raised,
                    converter |-> from_json(route, cres.value)]
        /\ UNCHANGED <<data_interface_classes, interface_specs, data_interface_objects,
                       constructed, metadata_spec, static_metadata, self_metadata,
                       chainVars, mergeVars, dedupeVars, templateVars, sidecarVars>>

NextConverter ==
    \/ AddInterface \/ RunConversion \/ GetSourceSchema \/ GetConversionOptionsSchema
    \/ GetMetadataSchema

SpecConverter == InitConverter /\ [][NextConverter]_vars

\* A converter made by NWBConverter() on which add_interface has registered its
\* interfaces: none, one, two with literal arguments, or one with a JSON object
\* besides its literal argument.  Metadata is added to it, it is run and written out.
FilePathKwargs == [file_path |-> PyStr("v")]
RegisteredCall(interface, spec) == [interface |-> interface, spec |-> spec]
Registered ==
    {<<>>,
     <<RegisteredCall("IntanRecordingInterface", NoSpec)>>,
     <<RegisteredCall("IntanRecordingInterface", NoSpec),
       RegisteredCall("CEDRecordingInterface", NoSpec)>>,
     <<RegisteredCall("CEDRecordingInterface", JsonSpec("file_path"))>>}
RECURSIVE add_interfaces(_, _)
add_interfaces(calls, c) ==
    IF calls = <<>> THEN c
    ELSE LET r == add_interface(c.data_interface_classes, c.interface_specs,
                                Head(calls).interface, Head(calls).spec, FilePathKwargs)
         IN  add_interfaces(Tail(calls),
                [c EXCEPT !.data_interface_classes = r.classes,
                          !.interface_specs = r.specs])

InitMetadata ==
    /\ \E calls \in Registered :
            /\ data_interface_classes =
                    add_interfaces(calls, NewConverter).data_interface_classes
            /\ interface_specs = add_interfaces(calls, NewConverter).interface_specs
    /\ data_interface_objects = <<>>
    /\ constructed = <<>>
    /\ metadata_spec = <<>> /\ static_metadata = EmptyDict /\ self_metadata = NoDict
    /\ cres = NoResult
    /\ MergeIdle /\ DedupeIdle /\ ChainIdle /\ TemplateIdle /\ SidecarIdle

NextMetadata == AddMetadata \/ RunConversion \/ ToJson \/ FromJson

SpecMetadata == InitMetadata /\ [][NextMetadata]_vars

(***************************************************************************)
(* Properties of composition and resolution                                *)
(***************************************************************************)
KeySet(r) == Range(r.keys)
Unchained(ch, a) == ch[a] = None

own_resolve(i, L) ==
    CASE Cls(i) = "Path" -> Path_parse_results(parse_dir(i, L), ProcessHashOrd)
      [] Cls(i) = "Paths" -> Paths_parse_results(parse_dir(i, L), ProcessHashOrd)
      [] OTHER -> ExternalFile_parse(i, L, <<>>)

RECURSIVE MergeAll(_, _)
MergeAll(members, L) ==
    IF members = <<>> THEN EmptyDict
    ELSE dict_deep_update(MergeAll(SubSeq(members, 1, Len(members) - 1), L),
                          own_resolve(members[Len(members)], L).value)

\* C2: resolving the chain [R1..Rn] against L calls each member's resolve once, in
\* registration order, each against L, and returns the left-to-right merge of the
\* members' fragments.  (Stated of the chains of JSON objects.)
C2_ChainResolvesMembersInOrder ==
    (/\ last.op = "parse"
     /\ children(child, last.self).ends
     /\ \A m \in Range(Members(child, last.self)) : Cls(m) = "JSON"
     /\ \A m \in Range(Members(child, last.self)) :
           own_resolve(m, last.arg).raised = "none")
    => LET members == Members(child, last.self)
       IN  /\ last.calls = [j \in 1..Len(members) |->
                                [spec |-> members[j], base |-> <<last.arg>>]]
           /\ last.raised = "none"
           /\ last.value = MergeAll(members, last.arg)

\* C3: the call run_conversion makes on a device's spec, with the base path and
\* the metadata resolved so far, succeeds for every class of spec.
C3_ParseAcceptsMetadata ==
    last.op = "parse_with_metadata" => last.raised = "none"

\* C4: composition is associative: when C is added to the chain A+B of three
\* distinct unchained objects, the members are [A, B, C], and the links, the
\* declared keys and the resolve results are those that A+(B+C) gives.
C4_CompositionAssociative ==
    [][\A a, b, c \in Specs :
        (/\ a # b /\ b # c /\ a # c
         /\ child[a] = <<b>> /\ parent[b] = <<a>>
         /\ Unchained(child, b) /\ Unchained(child, c)
         /\ last'.op = "add" /\ last'.self = a /\ last'.arg = c)
        => LET bc == add([child EXCEPT ![a] = None], parent, b, c, 0)
               alt == add(bc.child, bc.parent, a, b, 0)
           IN  /\ last'.raised = "none"
               /\ alt.raised = "none"
               /\ Members(child', a) = <<a, b, c>>
               /\ Members(alt.child, a) = <<a, b, c>>
               /\ child' = alt.child
               /\ parent' = alt.parent
               /\ specifies(child', a) = specifies(alt.child, a)
               /\ \A L \in Bases :
                     parse(child', a, L, loaded_files')
                        = parse(alt.child, a, L, loaded_files')]_vars

\* (A+B)+C has just been built from three distinct objects.
C4_Witness ==
    \E a, b, c \in Specs :
        /\ a # b /\ b # c /\ a # c
        /\ last.op = "add" /\ last.raised = "none"
        /\ last.self = a /\ last.arg = c
        /\ Members(child, a) = <<a, b, c>>
        /\ parent[b] = <<a>> /\ parent[c] = <<b>>

\* C5: whatever was composed with whatever, the child links of every chain form a
\* finite list without a cycle, so that iterating over its members ends.
C5_ChainsAcyclic ==
    \A a \in Specs : children(child, a).ends

\* C6: composing a chain, however deep, with an operand that is no spec object
\* fails with TypeError and leaves its members and its declared keys as they were.
C6_NonSpecOperandRejected ==
    [][(last'.op = "add" /\ ~IsBaseSpec(last'.arg))
       => /\ last'.raised = "TypeError"
          /\ child' = child
          /\ parent' = parent
          /\ \A a \in Specs :
                /\ Members(child', a) = Members(child, a)
                /\ specifies(child', a) = specifies(child, a)]_vars

\* A chain of three members has just refused an operand that is no spec object.
C6_Witness ==
    /\ last.op = "add" /\ ~IsBaseSpec(last.arg) /\ last.raised = "TypeError"
    /\ Len(Members(child, last.self)) >= 3
    /\ children(child, last.self).ends

(***************************************************************************)
(* Properties of the merge                                                 *)
(***************************************************************************)
BothDicts(k) ==
    /\ k \in DOMAIN mbase /\ k \in DOMAIN moverlay
    /\ mbase[k].t = "dict" /\ moverlay[k].t = "dict"

\* C7: merge(base, overlay) has the union of both key sets; a key whose two values are
\* nested mappings holds their merge (again the union of keys, overlay's value where
\* overlay has the key), and any other key of overlay holds overlay's value; so
\* merge({a:1},{a:2}) = {a:2} and merge({a:{x:1}},{a:{y:2}}) = {a:{x:1,y:2}}.
C7_MergeUnionRightBiased ==
    mout.done =>
        LET m == mout.value
        IN  /\ DOMAIN m = DOMAIN mbase \cup DOMAIN moverlay
            /\ \A k \in DOMAIN m :
                  IF BothDicts(k)
                  THEN /\ m[k].t = "dict"
                       /\ DOMAIN m[k].v = DOMAIN mbase[k].v \cup DOMAIN moverlay[k].v
                       /\ \A j \in DOMAIN m[k].v :
                             m[k].v[j] = IF j \in DOMAIN moverlay[k].v
                                         THEN moverlay[k].v[j]
                                         ELSE mbase[k].v[j]
                  ELSE m[k] = IF k \in DOMAIN moverlay THEN moverlay[k] ELSE mbase[k]
            /\ (mbase = ("a" :> PyInt(1)) /\ moverlay = ("a" :> PyInt(2)))
                  => m = ("a" :> PyInt(2))
            /\ (mbase = ("a" :> PyDict("x" :> PyInt(1)))
                    /\ moverlay = ("a" :> PyDict("y" :> PyInt(2))))
                  => m = ("a" :> PyDict(("x" :> PyInt(1)) @@ ("y" :> PyInt(2))))

\* Two nested mappings under one key were merged, a scalar of the same run replaced.
C7_Witness ==
    /\ mout.done
    /\ mbase = (("a" :> PyDict("x" :> PyInt(1))) @@ ("b" :> PyInt(1)))
    /\ moverlay = (("a" :> PyDict("y" :> PyInt(2))) @@ ("b" :> PyInt(2)))
    /\ mout.value = (("a" :> PyDict(("x" :> PyInt(1)) @@ ("y" :> PyInt(2))))
                        @@ ("b" :> PyInt(2)))

(***************************************************************************)
(* Properties of the deduplication                                         *)
(***************************************************************************)
\* The dicts as a path template with string-valued placeholders captures them.
StringLeaves(l) ==
    \A i \in DOMAIN l : \A k \in DOMAIN l[i] :
        \/ l[i][k].t = "str"
        \/ l[i][k].t = "dict" /\ \A j \in DOMAIN l[i][k].v : l[i][k].v[j].t = "str"
FlatScalars(l) == \A i \in DOMAIN l : \A k \in DOMAIN l[i] : IsHashable(l[i][k])
Carried(l, k) == {l[i][k] : i \in {i \in DOMAIN l : k \in DOMAIN l[i]}}
AllKeys(l) == UNION {DOMAIN l[i] : i \in DOMAIN l}
Disagreeing(l) == {k \in AllKeys(l) : Cardinality(Carried(l, k)) > 1}
NoDuplicates(q) == \A i, j \in DOMAIN q : q[i] = q[j] => i = j

\* C8: strict resolution (Path.parse, deduplication with raise_on_dupes set) returns
\* a fragment only when every key has one distinct value over all matched paths,
\* never one with a tuple-valued leaf, and fails with AmbiguityError naming the key
\* and its values as soon as a key has two.  (Stated of string-valued captures.)
C8_StrictRaisesAmbiguityError ==
    (/\ dres.op = "Path.parse" \/ (dres.op = "dedupe" /\ strict)
     /\ ParserResults(a_list) /\ StringLeaves(a_list)) =>
        /\ Disagreeing(a_list) # {} =>
              /\ dres.raised = "AmbiguityError"
              /\ \E k \in Disagreeing(a_list) :
                    k \in DOMAIN dres.dupes /\ Range(dres.dupes[k].v) = Carried(a_list, k)
        /\ dres.raised = "none" =>
              /\ Disagreeing(a_list) = {}
              /\ \A k \in DOMAIN dres.value : dres.value[k].t # "tuple"

\* C9: non-strict resolution (Paths.parse, deduplication with raise_on_dupes unset)
\* never raises on disagreement: a key seen with more than one distinct value holds
\* the distinct values, once each.  (Stated of string-valued captures.)
C9_NonStrictNeverRaises ==
    (/\ dres.op = "Paths.parse" \/ (dres.op = "dedupe" /\ ~strict)
     /\ ParserResults(a_list) /\ StringLeaves(a_list)
     /\ Disagreeing(a_list) # {}) =>
        /\ dres.raised = "none"
        /\ \A k \in Disagreeing(a_list) :
              /\ dres.value[k].t = "tuple"
              /\ NoDuplicates(dres.value[k].v)
              /\ Range(dres.value[k].v) = Carried(a_list, k)

C11_ConstructsIffNamedOnly ==
    tres.op = "new" =>
        /\ tres.raised = "none" <=>
               (Len(named_fields(tres.format)) > 0 /\ ~HasAnonymous(tres.format))
        /\ tres.raised \in {"none", "ValueError"}

\* The files of the tree that the glob of the format yields and the parser accepts.
Parsed(format, files) ==
    {s \in files : GlobMatch(format_glob(format), s) /\ ParseFrom(format, s).ok}

\* C12: parse raises the ValueError of _parse_dir when no file matches the glob of
\* the format and when files match the glob but the parser accepts none of them; a
\* file the glob yields and the parser rejects adds nothing to the results.
C12_NoMatchRaises ==
    tres.op = "parse" =>
        LET parsed == Parsed(tres.format, tree)
        IN  /\ parsed = {} => tres.raised = "ValueError" /\ tres.value = EmptyDict
            /\ parsed # {} =>
                  /\ tres.raised # "ValueError"
                  /\ Len(tres.results) = Cardinality(parsed)
                  /\ \A i \in DOMAIN tres.results :
                        \E s \in parsed : tres.results[i] = ParseFrom(tres.format, s).named

C12_Witness ==
    /\ tres.op = "parse" /\ tres.raised = "ValueError"
    /\ tres.matching_files # {} /\ Parsed(tres.format, tree) = {}

\* C13: when all parsed files give every field the same value, one file alone
\* included, parse of a Path and of a Paths alike returns the dict from each field
\* name to that value.
C13_SingleValueResolves ==
    (/\ tres.op = "parse"
     /\ tres.results # <<>>
     /\ \A i \in DOMAIN tres.results : tres.results[i] = tres.results[1]) =>
        tres.raised = "none" /\ tres.value = tres.results[1]

(***************************************************************************)
(* Properties of external files                                            *)
(***************************************************************************)
\* C14: over any series of parse calls, each file is loaded once by the objects that
\* cache: the first such call stores it, no entry of loaded_files is ever removed or
\* replaced, and every later call of a caching object on that path uses the entry.
C14_CachedFileLoadedOnce ==
    [][/\ \A p \in DOMAIN loaded_files :
             p \in DOMAIN loaded_files' /\ loaded_files'[p] = loaded_files[p]
       /\ \A p \in AbsPaths :
             /\ loads'[p].cached <= 1
             /\ loads'[p].cached = 1 <=> p \in DOMAIN loaded_files'
       /\ (sres'.obj.cache /\ sres'.file_path \in DOMAIN loaded_files) =>
             sres'.hit /\ loads' = loads]_vars

C14_Witness ==
    /\ sres.op = "parse" /\ sres.hit /\ sres.raised = "none"
    /\ sres.base_path = <<"d", "s">> /\ sres.obj.path = <<"meta.json">>
    /\ loads[sres.file_path].cached = 1

\* The value found by following the items of a field into nested dicts, or the item
\* that is missing and the value it is missing from.
RECURSIVE Descend(_, _)
Descend(x, items) ==
    IF items = <<>> THEN [found |-> TRUE, value |-> x, item |-> "", from |-> x]
    ELSE IF x.t = "dict" /\ Head(items) \in DOMAIN x.v
    THEN Descend(x.v[Head(items)], Tail(items))
    ELSE [found |-> FALSE, value |-> x, item |-> Head(items), from |-> x]

\* The loaded file of the last parse: what the cache held for the path, or what
\* json.load made of the file with the object's hook.
LoadedFile ==
    IF sres.hit THEN loaded_files[sres.file_path]
    ELSE object_hook(sres.obj.hook, disk[sres.file_path].v)

C16_LoadFailureLeavesCache ==
    [][disk[sres'.file_path].t # "json" =>
          /\ sres'.raised = IF disk[sres'.file_path].t = "missing"
                            THEN "FileNotFoundError" ELSE "JSONDecodeError"
          /\ sres'.value = EmptyDict
          /\ loaded_files' = loaded_files
          /\ sres'.file_path \notin DOMAIN loaded_files'
          /\ sres'.obj.cache =>
                loads'[sres'.file_path].failed = loads[sres'.file_path].failed + 1]_vars

C16_Witness ==
    /\ sres.op = "parse" /\ sres.raised = "JSONDecodeError" /\ sres.obj.cache
    /\ loads[sres.file_path].failed = 2

(***************************************************************************)
(* Properties of the converter                                             *)
(***************************************************************************)
\* What an add_interface call was given, and what it still lacked
NotSpecified(r) ==
    RequiredOf(r.interface) \
        (DOMAIN r.kwargs \cup (IF r.spec = NoSpec THEN {} ELSE Range(spec_specifies(r.spec))))
Registrations == <<data_interface_classes, interface_specs>>
LastFullSpec(specs, interface) == 
    LET at == IndexOf(specs, SpecKey(interface))
    IN  IF at = 0 THEN NoSpec ELSE specs[at].value[Len(specs[at].value)]

\* C17: add_interface fails with a ValueError exactly when a required property of the
\* component is neither given as a literal nor among the `specifies` of the resolver;
\* on that failure nothing is registered, and when a Path declares the one required
\* property and no literal gives it the component is registered.  (Stated of the
\* calls that name a component and give a literal or a resolver.)
C17_FailsExactlyWhenMissing ==
    [][(/\ cres'.op = "add_interface" /\ cres'.interface \in InterfaceClasses
        /\ ~(DOMAIN cres'.kwargs = {} /\ cres'.spec = NoSpec)) =>
        /\ cres'.raised = "ValueError" <=> NotSpecified(cres') # {}
        /\ cres'.raised # "none" => UNCHANGED Registrations
        /\ NotSpecified(cres') = {} =>
               /\ cres'.raised = "none" /\ cres'.registered
               /\ LastFullSpec(interface_specs', cres'.interface) =
                      [interface |-> cres'.interface, spec |-> cres'.spec,
                       kwargs |-> cres'.kwargs]]_vars

\* C18: every constructor call run_conversion makes has an argument for every
\* required property of the class it constructs.
C18_ConstructedWithRequired ==
    \A i \in DOMAIN constructed :
        RequiredOf(constructed[i].cls) \subseteq DOMAIN constructed[i].args

\* run_conversion has constructed two components, each requiring file_path.
C18_Witness ==
    /\ cres.op = "run_conversion" /\ cres.raised = "none"
    /\ {constructed[i].cls : i \in DOMAIN constructed} = InterfaceClasses

RegisteredClasses == {FullSpecs(interface_specs)[i].interface : i \in DOMAIN FullSpecs(interface_specs)}

\* C19: the source schema and the conversion-options schema each have exactly one
\* property for every registered component, under the component's own name and
\* holding that component's schema.
\* (Stated of a converter that declares no class of its own: all it has was
\* registered with add_interface.)
C19_OnePropertyPerComponent ==
    (/\ cres.op \in {"get_source_schema", "get_conversion_options_schema"}
     /\ \A i \in DOMAIN data_interface_classes :
            data_interface_classes[i] \notin Range(OldStyleClasses)) =>
        /\ Len(cres.properties) = Cardinality(RegisteredClasses)
        /\ \A c \in RegisteredClasses :
              \E i \in DOMAIN cres.properties :
                  /\ cres.properties[i].key = c
                  /\ cres.properties[i].value =
                        IF cres.op = "get_source_schema" THEN SourceSchema(c)
                        ELSE OptionsSchema(c)

\* The classes that have an object in data_interface_objects
InstantiatedClasses ==
    UNION {LET o == data_interface_objects[i].value
           IN  IF o.t = "list" THEN {o.v[j].cls : j \in DOMAIN o.v} ELSE {o.cls}
           : i \in DOMAIN data_interface_objects}
Occurrences(q, x) == Cardinality({i \in DOMAIN q : q[i] = x})

\* C20: with two components instantiated, both contributing to Ecephys and both
\* requiring Device there, get_metadata_schema returns one schema in which
\* Ecephys.required has each required name once and Ecephys.properties has the
\* properties of both.
C20_AggregatesBothComponents ==
    (cres.op = "get_metadata_schema" /\ Cardinality(InstantiatedClasses) >= 2) =>
        /\ cres.raised = "none"
        /\ LET Ecephys == cres.value.properties.v.Ecephys.v
           IN  /\ \A n \in Range(EcephysNames) :
                     Occurrences(Ecephys.required.v, PyStr(n)) = 1
               /\ DOMAIN Ecephys.properties.v = Range(EcephysNames)

\* What the call recorded in sres gives when the object does not cache
Uncached ==
    external_file_parse([sres.obj EXCEPT !.cache = FALSE], sres.base_path, loaded_files,
                        disk)

\* C25: a parse by an object whose cache flag is off loads the file and leaves the
\* cache of loaded files as it was, also when the cache holds the file already.
C25_CacheOffLeavesCache ==
    [][(sres'.op = "parse" /\ ~sres'.obj.cache) =>
            /\ ~sres'.hit
            /\ loaded_files' = loaded_files
            /\ sres'.raised = "none" =>
                  sres'.value[sres'.obj.key] =
                      ExternalFile_sub_select(
                          object_hook(sres'.obj.hook, disk[sres'.file_path].v),
                          sres'.obj.field).value]_vars

\* An object whose cache flag is off has parsed a file that the cache holds.
C25_Witness ==
    /\ sres.op = "parse" /\ ~sres.obj.cache /\ sres.raised = "none"
    /\ sres.file_path \in DOMAIN loaded_files

\* C29: what a caching object returns is what it returns with its cache flag off,
\* whichever objects parsed the same file before it.
C29_CacheTransparent ==
    (sres.op = "parse" /\ sres.obj.cache) =>
        /\ sres.raised = Uncached.raised
        /\ sres.value = Uncached.value

(***************************************************************************)
(* Further properties of composition                                       *)
(***************************************************************************)
\* C26: a + b leaves the operand a as it was: its members and what it specifies
\* are the same after the sum as before it.  (Stated of two distinct JSON objects.)
C26_AddLeavesOperand ==
    [][(/\ last'.op = "add" /\ last'.raised = "none"
        /\ Cls(last'.self) = "JSON" /\ Cls(last'.arg) = "JSON"
        /\ last'.self # last'.arg) =>
            /\ Members(child', last'.self) = Members(child, last'.self)
            /\ specifies(child', last'.self) = specifies(child, last'.self)]_vars

\* C28: the keys of the fragment that an object with no child resolves are the keys
\* the object specifies: a JSON object with the key k specifies k and nothing else,
\* and returns a fragment whose one key is k.  (Stated of JSON objects.)
C28_FragmentKeysAreSpecified ==
    (/\ last.op = "parse" /\ last.raised = "none"
     /\ Cls(last.self) = "JSON" /\ child[last.self] = None) =>
        /\ specifies(child, last.self).raised = "none"
        /\ Range(specifies(child, last.self).keys) = DOMAIN last.value
        /\ DOMAIN last.value = {JsonKey(last.self)}

(***************************************************************************)
(* Further properties of the converter                                     *)
(***************************************************************************)
\* C30: add_interface with a type and a device name but no literal and no resolver
\* returns without an error, and without both a type and a name it raises; either
\* way the registered classes, the stored specs and the objects stay as they were.
C30_BareCallChangesNothing ==
    [][(/\ cres'.op = "add_interface"
        /\ DOMAIN cres'.kwargs = {} /\ cres'.spec = NoSpec) =>
            /\ cres'.raised = (IF cres'.interface = "None" THEN "ValueError" ELSE "none")
            /\ ~cres'.registered
            /\ UNCHANGED <<data_interface_classes, interface_specs,
                           data_interface_objects>>]_vars

\* A component with a required property was named with no literal and no resolver,
\* on a converter that has a component registered.
C30_Witness ==
    /\ cres.op = "add_interface" /\ cres.interface \in InterfaceClasses
    /\ RequiredOf(cres.interface) # {}
    /\ DOMAIN cres.kwargs = {} /\ cres.spec = NoSpec
    /\ interface_specs # <<>>

\* What add_interface registered, on a converter that declares no class of its own
NewStyle ==
    \A i \in DOMAIN data_interface_classes :
        data_interface_classes[i] \notin Range(OldStyleClasses)
RegisteredInstances ==
    [i \in DOMAIN FullSpecs(interface_specs) |->
        PyInstance(FullSpecs(interface_specs)[i].interface,
                   FullSpecs(interface_specs)[i].kwargs)]

\* C23: a run_conversion that fails part-way commits nothing: data_interface_objects
\* is after the failed run what it was before it.
C23_FailedRunCommitsNothing ==
    [][(cres'.op = "run_conversion" /\ cres'.raised # "none") =>
            data_interface_objects' = data_interface_objects]_vars

\* C27: every run_conversion that succeeds converts exactly one instance for each
\* registration, made from that registration's arguments, however many runs went
\* before it.  (Stated of a converter that declares no class of its own.)
C27_ConvertsOnePerRegistration ==
    (cres.op = "run_conversion" /\ cres.raised = "none" /\ NewStyle) =>
        cres.converted = RegisteredInstances

(***************************************************************************)
(* Properties of the metadata of a run and of to_json and from_json        *)
(***************************************************************************)
HasKey(q, k) == {i \in DOMAIN q : k \in DOMAIN q[i]}
LastWith(q, k) == CHOOSE i \in HasKey(q, k) : \A j \in HasKey(q, k) : j <= i

\* C21: the metadata of a run is the starting metadata overlaid by the fragments of
\* the metadata resolvers in the order they were added, then by the static metadata,
\* then by what the instantiated components report: on every key the value is that
\* of the components if they report one, else the static one, else that of the last
\* resolver that yields the key, else the starting one.
C21_MergeOrder ==
    (cres.op = "run_conversion" /\ cres.raised = "none") =>
        /\ DOMAIN cres.value =
                DOMAIN cres.start \cup DOMAIN cres.static \cup DOMAIN cres.derived
                    \cup UNION {DOMAIN cres.fragments[i] : i \in DOMAIN cres.fragments}
        /\ \A k \in DOMAIN cres.value :
                cres.value[k] =
                    IF k \in DOMAIN cres.derived THEN cres.derived[k]
                    ELSE IF k \in DOMAIN cres.static THEN cres.static[k]
                    ELSE IF HasKey(cres.fragments, k) # {}
                    THEN cres.fragments[LastWith(cres.fragments, k)][k]
                    ELSE cres.start[k]

\* A run with two resolvers that yield different values for Subject, a starting
\* dict that has Subject and Ecephys, static metadata that has Ecephys and an
\* instantiated component that reports Ecephys.
C21_Witness ==
    /\ cres.op = "run_conversion" /\ cres.raised = "none"
    /\ Len(cres.fragments) = 2 /\ HasKey(cres.fragments, "Subject") = {1, 2}
    /\ cres.fragments[1] # cres.fragments[2]
    /\ {"Subject", "Ecephys"} \subseteq DOMAIN cres.start
    /\ "Ecephys" \in DOMAIN cres.static /\ "Ecephys" \in DOMAIN cres.derived
    /\ "Subject" \notin DOMAIN cres.static
    /\ cres.value["Subject"] = cres.fragments[2]["Subject"]
    /\ cres.start["Ecephys"] # cres.derived["Ecephys"]

\* C22: before the first interface object's run_conversion is called with the
\* metadata, the run has validated the metadata against the metadata schema.
C22_ValidatedBeforeConversion ==
    (cres.op = "run_conversion" /\ cres.converted # <<>>) =>
        \E i \in DOMAIN cres.calls :
            /\ cres.calls[i] = "validate(metadata)"
            /\ \A j \in 1..i : cres.calls[j] # "data_interface.run_conversion"

\* C24: from_json, given the file to_json wrote or the dict it returned, makes a
\* converter with the same interfaces, metadata resolvers and static metadata.
C24_RoundTrip ==
    cres.op = "from_json" =>
        /\ cres.raised = "none"
        /\ cres.converter.interface_specs = interface_specs
        /\ cres.converter.metadata_spec = metadata_spec
        /\ cres.converter.static_metadata = static_metadata
====
